---- MODULE Spec2Model ----
(***************************************************************************)
(* Model of user_access_review/onfido/extract_users.py: a script that      *)
(* scans the text of a PDF page by page and line by line, collects one     *)
(* (name, email, role) tuple per line holding an email address, stops at   *)
(* the "Deactivated users" heading and writes the tuples to a CSV file.    *)
(*                                                                         *)
(* Text is a sequence of one-character strings, so that split, strip, the  *)
(* substring test and the regular expression are computed and not assumed. *)
(***************************************************************************)
EXTENDS Integers, Sequences, FiniteSets, TLC

\* ------------------------------------------------------------------ bounds
MaxPages == 2
MaxDocLines == 3
MaxRuns == 2

\* ------------------------------------------------------------- characters
NL == "\n"
Whitespace == {" ", "\t", "\n", "\r"}
Lower == {"a","b","c","d","e","f","g","h","i","j","k","l","m",
          "n","o","p","q","r","s","t","u","v","w","x","y","z"}
Upper == {"A","B","C","D","E","F","G","H","I","J","K","L","M",
          "N","O","P","Q","R","S","T","U","V","W","X","Y","Z"}
Digit == {"0","1","2","3","4","5","6","7","8","9"}
Alpha == Lower \cup Upper
\* [a-zA-Z0-9._%+-]
LocalChars == Alpha \cup Digit \cup {".", "_", "%", "+", "-"}
\* [a-zA-Z0-9.-]
DomainChars == Alpha \cup Digit \cup {".", "-"}

\* "Deactivated users"
Marker == <<"D","e","a","c","t","i","v","a","t","e","d"," ","u","s","e","r","s">>
\* "Unknown"
Unknown == <<"U","n","k","n","o","w","n">>
\* ["Name", "Email", "Role"]
Header == << <<"N","a","m","e">>, <<"E","m","a","i","l">>, <<"R","o","l","e">> >>
\* the value standing for a raised IndexError
IndexError == <<"IndexError">>

\* ------------------------------------------------------- string functions
\* text.split("\n"): the pieces between line breaks; never an empty list
RECURSIVE Split(_)
Split(text) ==
    LET breaks == { k \in 1..Len(text) : text[k] = NL }
    IN  IF breaks = {} THEN <<text>>
        ELSE LET b == CHOOSE k \in breaks : \A m \in breaks : k <= m
             IN  <<SubSeq(text, 1, b - 1)>> \o
                     Split(SubSeq(text, b + 1, Len(text)))

\* str.strip(): drop leading and trailing whitespace
RECURSIVE LStrip(_)
LStrip(s) == IF s # <<>> /\ Head(s) \in Whitespace THEN LStrip(Tail(s)) ELSE s

RECURSIVE RStrip(_)
RStrip(s) ==
    IF s # <<>> /\ s[Len(s)] \in Whitespace
    THEN RStrip(SubSeq(s, 1, Len(s) - 1)) ELSE s

Strip(s) == RStrip(LStrip(s))

\* "Deactivated users" in line
HasMarker(line) ==
    \E k \in 1..(Len(line) - Len(Marker) + 1) :
        SubSeq(line, k, k + Len(Marker) - 1) = Marker

\* re.search(r"[a-zA-Z0-9._%+-]+@[a-zA-Z0-9.-]+\.[a-zA-Z]{2,}", line):
\* some "@" preceded by a local character and followed by a non-empty run of
\* domain characters, a "." and two letters
EmailMatch(line) ==
    \E at \in 2..Len(line) :
        /\ line[at] = "@"
        /\ line[at - 1] \in LocalChars
        /\ \E dot \in (at + 2)..(Len(line) - 2) :
              /\ \A k \in (at + 1)..(dot - 1) : line[k] \in DomainChars
              /\ line[dot] = "."
              /\ line[dot + 1] \in Alpha
              /\ line[dot + 2] \in Alpha

\* lines[k] of a Python list (k counted from 0, negative k from the end)
PyIndex(lines, k) ==
    IF 0 <= k /\ k < Len(lines) THEN lines[k + 1]
    ELSE IF k < 0 /\ -k <= Len(lines) THEN lines[Len(lines) + k + 1]
    ELSE IndexError

StripOrError(v) == IF v = IndexError THEN IndexError ELSE Strip(v)

\* --------------------------------------------------------------- documents
\* the lines a page's text is made of, before any trimming
LineAnn == <<"A","n","n">>
LineEmail == <<" ","a","@","b",".","c","d","\t">>
LineTwoEmails == <<"a","@","b",".","c","d"," ","c","@","d",".","e","f">>
LineMarker == Marker
LineMarkerEmail == <<" ">> \o Marker \o <<" ","a","@","b",".","c","d">>
LineBlank == <<>>
LinePool == {LineAnn, LineEmail, LineTwoEmails, LineMarker, LineMarkerEmail,
             LineBlank}

RECURSIVE Join(_)
Join(frags) ==
    IF Len(frags) = 0 THEN <<>>
    ELSE IF Len(frags) = 1 THEN frags[1]
    ELSE frags[1] \o <<NL>> \o Join(Tail(frags))

RECURSIVE SumTo(_, _)
SumTo(sz, p) == IF p = 0 THEN 0 ELSE sz[p] + SumTo(sz, p - 1)

\* the text of each page of the document made of the lines f, page p holding
\* sz[p] of them
PageTexts(f, sz) ==
    [p \in 1..Len(sz) |-> Join(SubSeq(f, SumTo(sz, p - 1) + 1, SumTo(sz, p)))]

\* every document of at most MaxPages pages and MaxDocLines lines
Documents ==
    UNION { UNION { { PageTexts(f, sz) : f \in [1..n -> LinePool] } :
                    sz \in { s \in [1..k -> 1..n] : SumTo(s, k) = n } } :
            <<n, k>> \in (0..MaxDocLines) \X (0..MaxPages) }

\* ------------------------------------------------------------------- state
VARIABLES
    doc,                  \* the page texts of the PDF at pdf_path
    pc,                   \* position of the script
    run,                  \* number of the invocation
    pageIdx,              \* pages of doc already iterated over
    lines,                \* lines of the current page
    i,                    \* index of the current line, from 0
    users,                \* the tuples collected
    origin,               \* history: <<page, line>> of each tuple's email line
    deactivated_section,  \* the stop flag
    docHandle,            \* "none", "open" or "closed"
    fileHandle,           \* "none", "open" or "closed"
    csv,                  \* onfido_users.csv: whether it exists, and its rows
    err,                  \* the exception that ended the run, or "none"
    prev                  \* history: outcome, tuples and file of the last run

vars == <<doc, pc, run, pageIdx, lines, i, users, origin, deactivated_section,
          docHandle, fileHandle, csv, err, prev>>

NoFile == [exists |-> FALSE, rows |-> <<>>]

Init ==
    /\ doc \in Documents
    /\ pc = "start"
    /\ run = 1
    /\ pageIdx = 0
    /\ lines = <<>>
    /\ i = 0
    /\ users = <<>>
    /\ origin = <<>>
    /\ deactivated_section = FALSE
    /\ docHandle = "none"
    /\ fileHandle = "none"
    /\ csv = NoFile
    /\ err = "none"
    /\ prev = [outcome |-> "none", users |-> <<>>, csv |-> NoFile]

\* ----------------------------------------------------------------- helpers
\* variant: the email test comes before the marker test
LineKindEmailFirst(line) ==
    IF EmailMatch(line) THEN "email"
    ELSE IF HasMarker(line) THEN "marker"
    ELSE "skip"

\* if "Deactivated users" in line: ... break / if re.search(...): ...
LineKind(line) ==
    IF HasMarker(line) THEN "marker"
    ELSE IF EmailMatch(line) THEN "email"
    ELSE "skip"

\* variant: no test of i > 0, so that line 0 reads lines[-1]
NameOfNoGuard(ls, k) == StripOrError(PyIndex(ls, k - 1))

\* name = lines[i - 1].strip() if i > 0 else "Unknown"
NameOf(ls, k) == IF k > 0 THEN StripOrError(PyIndex(ls, k - 1)) ELSE Unknown

\* variant: the neighbour below is not trimmed
RoleOfNoStrip(ls, k) == IF k + 1 < Len(ls) THEN PyIndex(ls, k + 1) ELSE Unknown

\* variant: the bound test is off by one
RoleOfOffByOne(ls, k) ==
    IF k + 1 <= Len(ls) THEN StripOrError(PyIndex(ls, k + 1)) ELSE Unknown

\* role = lines[i + 1].strip() if i + 1 < len(lines) else "Unknown"
RoleOf(ls, k) ==
    IF k + 1 < Len(ls) THEN StripOrError(PyIndex(ls, k + 1)) ELSE Unknown

\* variant: the tuple is put in front
AppendUserFront(us, rec) == <<rec>> \o us

\* variant: an email text already collected is not collected again
AppendUserDedup(us, rec) ==
    IF \E r \in 1..Len(us) : us[r][2] = rec[2] THEN us ELSE Append(us, rec)

\* users.append((name, email, role))
AppendUser(us, rec) == Append(us, rec)

\* variant: the file is opened for appending
OpenedRowsKept(old) == old

\* open(csv_path, mode="w", newline=""): the rows of the file once opened
OpenedRows(old) == <<>>

Abort(e) ==
    /\ pc' = "aborted"
    /\ err' = e

\* ----------------------------------------------------------------- actions
\* doc = fitz.open(pdf_path); users = []; deactivated_section = False
OpenDoc ==
    /\ pc = "start"
    /\ \E ok \in BOOLEAN :
          IF ok
          THEN /\ docHandle' = "open"
               /\ users' = <<>>
               /\ origin' = <<>>
               /\ deactivated_section' = FALSE
               /\ pc' = "next_page"
               /\ err' = err
          ELSE /\ Abort("OpenError")
               /\ UNCHANGED <<docHandle, users, origin, deactivated_section>>
    /\ UNCHANGED <<doc, run, pageIdx, lines, i, fileHandle, csv, prev>>

\* for page in doc: text = page.get_text("text"); lines = text.split("\n")
NextPage ==
    /\ pc = "next_page"
    /\ IF pageIdx < Len(doc)
       THEN /\ lines' = Split(doc[pageIdx + 1])
            /\ i' = 0
            /\ pc' = "scan"
       ELSE /\ pc' = "open_csv"
            /\ UNCHANGED <<lines, i>>
    /\ UNCHANGED <<doc, run, pageIdx, users, origin, deactivated_section,
                   docHandle, fileHandle, csv, err, prev>>

\* one iteration of: for i in range(len(lines))
ScanLine ==
    /\ pc = "scan"
    /\ IF i >= Len(lines)
       THEN /\ pc' = "page_end"
            /\ UNCHANGED <<i, users, origin, deactivated_section, err>>
       ELSE LET line == StripOrError(PyIndex(lines, i))
                kind == LineKind(line)
                name == NameOf(lines, i)
                role == RoleOf(lines, i)
            IN  CASE kind = "marker" ->
                       /\ deactivated_section' = TRUE
                       /\ pc' = "page_end"
                       /\ UNCHANGED <<i, users, origin, err>>
                  [] kind = "email" /\ (name = IndexError \/ role = IndexError) ->
                       /\ Abort("IndexError")
                       /\ UNCHANGED <<i, users, origin, deactivated_section>>
                  [] kind = "email" /\ name # IndexError /\ role # IndexError ->
                       /\ users' = AppendUser(users, <<name, line, role>>)
                       /\ origin' = Append(origin, <<pageIdx, i>>)
                       /\ i' = i + 1
                       /\ UNCHANGED <<pc, deactivated_section, err>>
                  [] kind = "skip" ->
                       /\ i' = i + 1
                       /\ UNCHANGED <<pc, users, origin, deactivated_section, err>>
    /\ UNCHANGED <<doc, run, pageIdx, lines, docHandle, fileHandle, csv, prev>>

\* if deactivated_section: break   (else the next page)
PageEnd ==
    /\ pc = "page_end"
    /\ IF deactivated_section
       THEN /\ pc' = "open_csv"
            /\ UNCHANGED pageIdx
       ELSE /\ pc' = "next_page"
            /\ pageIdx' = pageIdx + 1
    /\ UNCHANGED <<doc, run, lines, i, users, origin, deactivated_section,
                   docHandle, fileHandle, csv, err, prev>>

\* with open(csv_path, mode="w", newline="") as file
OpenCsv ==
    /\ pc = "open_csv"
    /\ \E ok \in BOOLEAN :
          IF ok
          THEN /\ csv' = [exists |-> TRUE, rows |-> OpenedRows(csv.rows)]
               /\ fileHandle' = "open"
               /\ pc' = "write_header"
               /\ err' = err
          ELSE /\ Abort("OSError")
               /\ UNCHANGED <<csv, fileHandle>>
    /\ UNCHANGED <<doc, run, pageIdx, lines, i, users, origin,
                   deactivated_section, docHandle, prev>>

\* writer.writerow(["Name", "Email", "Role"]); on an error the with block
\* closes the file
WriteHeader ==
    /\ pc = "write_header"
    /\ \E ok \in BOOLEAN :
          IF ok
          THEN /\ csv' = [csv EXCEPT !.rows = Append(@, Header)]
               /\ pc' = "write_rows"
               /\ UNCHANGED <<fileHandle, err>>
          ELSE /\ Abort("OSError")
               /\ fileHandle' = "closed"
               /\ csv' = csv
    /\ UNCHANGED <<doc, run, pageIdx, lines, i, users, origin,
                   deactivated_section, docHandle, prev>>

\* writer.writerows(users); an error leaves the rows written before it
WriteRows ==
    /\ pc = "write_rows"
    /\ \/ /\ csv' = [csv EXCEPT !.rows = @ \o users]
          /\ pc' = "close_csv"
          /\ UNCHANGED <<fileHandle, err>>
       \/ \E k \in 0..(Len(users) - 1) :
             /\ csv' = [csv EXCEPT !.rows = @ \o SubSeq(users, 1, k)]
             /\ Abort("OSError")
             /\ fileHandle' = "closed"
    /\ UNCHANGED <<doc, run, pageIdx, lines, i, users, origin,
                   deactivated_section, docHandle, prev>>

\* leaving the with block
CloseCsv ==
    /\ pc = "close_csv"
    /\ fileHandle' = "closed"
    /\ pc' = "done"
    /\ UNCHANGED <<doc, run, pageIdx, lines, i, users, origin,
                   deactivated_section, docHandle, csv, err, prev>>

\* the script is invoked again on the same PDF: a new process, whose names
\* are unbound and whose handles the old process gave up; the files stay
Restart ==
    /\ pc \in {"done", "aborted"}
    /\ run < MaxRuns
    /\ run' = run + 1
    /\ prev' = [outcome |-> pc, users |-> users, csv |-> csv]
    /\ pc' = "start"
    /\ pageIdx' = 0
    /\ lines' = <<>>
    /\ i' = 0
    /\ users' = <<>>
    /\ origin' = <<>>
    /\ deactivated_section' = FALSE
    /\ docHandle' = "none"
    /\ fileHandle' = "none"
    /\ err' = "none"
    /\ UNCHANGED <<doc, csv>>

Next ==
    \/ OpenDoc
    \/ NextPage
    \/ ScanLine
    \/ PageEnd
    \/ OpenCsv
    \/ WriteHeader
    \/ WriteRows
    \/ CloseCsv

Spec == Init /\ [][Next]_vars

NextRerun ==
    \/ Next
    \/ Restart

SpecRerun == Init /\ [][NextRerun]_vars

\* ------------------------------------------------- the document, as read
\* Pages and lines are counted from 0, as the script counts them.
\* The trimmed lines of every page of the document.
DocText ==
    [p \in 1..Len(doc) |->
        LET ls == Split(doc[p]) IN [k \in 1..Len(ls) |-> Strip(ls[k])]]

At(T, pos) == T[pos[1] + 1][pos[2] + 1]

Positions(T) ==
    UNION { { <<p - 1, k - 1>> : k \in 1..Len(T[p]) } : p \in 1..Len(T) }

Before(a, b) == a[1] < b[1] \/ (a[1] = b[1] /\ a[2] < b[2])

MarkerPositions(T) == { pos \in Positions(T) : HasMarker(At(T, pos)) }

BeforeAll(pos, M) == \A m \in M : Before(pos, m)

\* the lines before the first marker line that hold an email address
EmailPositions(T) ==
    LET M == MarkerPositions(T)
    IN  { pos \in Positions(T) : BeforeAll(pos, M) /\ EmailMatch(At(T, pos)) }

IsLastLine(T, pos) == pos[2] = Len(T[pos[1] + 1]) - 1

Above(pos) == <<pos[1], pos[2] - 1>>

Below(pos) == <<pos[1], pos[2] + 1>>

ScanOver == pc \in {"open_csv", "write_header", "write_rows", "close_csv", "done"}

Records == 1..Len(users)

\* --------------------------------------------------------------------- C1
\* C1: once a line containing "Deactivated users" is met, no record comes
\* from that line or a later one, and no field (name, email, role) of any
\* record is taken from the marker line or from a line after it.
C1_NothingFromMarkerOn ==
    LET T == DocText
        M == MarkerPositions(T)
    IN  /\ Len(origin) = Len(users)
        /\ \A r \in Records :
              /\ BeforeAll(origin[r], M)
              /\ origin[r][2] > 0 => BeforeAll(Above(origin[r]), M)
              /\ ~IsLastLine(T, origin[r]) => BeforeAll(Below(origin[r]), M)

\* --------------------------------------------------------------------- C2
\* C2: the record of an email line i has email = the whole trimmed line i,
\* name = the trimmed line i-1 when i > 0 and role = the trimmed line i+1
\* when that line is in the page; a line between two email lines is the
\* role of the first record and the name of the second.
C2_FieldsFromNeighbours ==
    LET T == DocText
        E == EmailPositions(T)
    IN  /\ Len(origin) = Len(users)
        /\ \A r \in Records :
              /\ origin[r] \in E
              /\ users[r][2] = At(T, origin[r])
              /\ origin[r][2] > 0 => users[r][1] = At(T, Above(origin[r]))
              /\ ~IsLastLine(T, origin[r]) =>
                     users[r][3] = At(T, Below(origin[r]))

C2_Witness ==
    \E r \in Records :
        /\ r + 1 \in Records
        /\ origin[r + 1] = Below(Below(origin[r]))
        /\ users[r][3] = At(DocText, Below(origin[r]))
        /\ users[r + 1][1] = users[r][3]
        /\ users[r][2] # LineEmail
        /\ users[r][2] = Strip(LineEmail)

\* --------------------------------------------------------------------- C3
\* C3: neighbours never come from another page: an email on line 0 of any
\* page has name "Unknown", an email on the last line of any page has role
\* "Unknown".
C3_NoPageCrossing ==
    LET T == DocText
    IN  /\ Len(origin) = Len(users)
        /\ \A r \in Records :
              /\ origin[r][2] = 0 => users[r][1] = Unknown
              /\ IsLastLine(T, origin[r]) => users[r][3] = Unknown

C3_Witness ==
    LET T == DocText
    IN  \E r, q \in Records :
            /\ IsLastLine(T, origin[r])
            /\ origin[q] = <<origin[r][1] + 1, 0>>
            /\ Len(T[origin[r][1] + 1]) > 1
            /\ users[q][1] = Unknown
            /\ users[r][3] = Unknown

\* --------------------------------------------------------------------- C4
\* C4: a line that holds both the marker and an email address gives no
\* record and sets the stop flag; once the flag is set no further line of
\* this page or of a later page is scanned.
AtMarkerEmailLine ==
    /\ pc = "scan"
    /\ i < Len(lines)
    /\ HasMarker(Strip(lines[i + 1]))
    /\ EmailMatch(Strip(lines[i + 1]))

C4_MarkerBeforeEmail ==
    [][ /\ AtMarkerEmailLine =>
              (users' = users /\ deactivated_section' /\ pc' = "page_end")
        /\ deactivated_section =>
              (users' = users /\ pageIdx' = pageIdx /\ i' = i /\ pc' # "scan")
      ]_vars

C4_Witness ==
    LET T == DocText
    IN  /\ pc = "open_csv"
        /\ deactivated_section
        /\ i < Len(lines)
        /\ Strip(lines[i + 1]) = Strip(LineMarkerEmail)
        /\ pageIdx + 1 < Len(doc)
        /\ users # <<>>
        /\ \E pos \in Positions(T) :
              Before(<<pageIdx, i>>, pos) /\ EmailMatch(At(T, pos))

\* --------------------------------------------------------------------- C5
\* C5: records are in the order their email lines are met, pages front to
\* back and lines top to bottom; records are only appended; the rows after
\* the header of the output are the records in that order.
IsPrefix(s, t) == Len(s) <= Len(t) /\ SubSeq(t, 1, Len(s)) = s

DiscoveryOrder ==
    LET T == DocText
    IN  /\ Len(origin) = Len(users)
        /\ \A r \in Records : users[r][2] = At(T, origin[r])
        /\ \A r, q \in Records : r < q => Before(origin[r], origin[q])

C5_DiscoveryOrder ==
    /\ [](DiscoveryOrder /\ (pc = "done" => csv.rows = <<Header>> \o users))
    /\ [][IsPrefix(users, users')]_vars

C5_Witness ==
    /\ pc = "done"
    /\ \E r, q \in Records :
          /\ r < q
          /\ users[r][2] # users[q][2]
          /\ origin[r][1] < origin[q][1]
    /\ \E r, q \in Records : r < q /\ origin[r][1] = origin[q][1]
    /\ Len(csv.rows) = Len(users) + 1

\* --------------------------------------------------------------------- C6
\* C6: the number of records is the number of lines before the stop marker
\* that hold an email address: one record per such line, also for a line
\* with several addresses, one per line for repeated email text, and none
\* when no line matches.
C6_OneRecordPerEmailLine ==
    LET E == EmailPositions(DocText)
    IN  /\ Len(origin) = Len(users)
        /\ Len(users) <= Cardinality(E)
        /\ ScanOver =>
              /\ Len(users) = Cardinality(E)
              /\ { origin[r] : r \in Records } = E

C6_Witness ==
    /\ pc = "done"
    /\ \E r, q \in Records : r # q /\ users[r][2] = users[q][2]
    /\ \E r \in Records : users[r][2] = LineTwoEmails
    /\ Len(users) = 3

\* --------------------------------------------------------------------- C7
\* C7: no page content makes the scan fail: no line outside the page is
\* read, and a missing neighbour gives "Unknown".
C7_NoIndexError ==
    /\ err # "IndexError"
    /\ pc = "scan" => i <= Len(lines) /\ Len(lines) >= 1
    /\ \A r \in Records : users[r][1] # IndexError /\ users[r][3] # IndexError

C7_Witness ==
    /\ ScanOver
    /\ Len(doc) = 2
    /\ \E p \in 1..Len(doc) : doc[p] = <<>>
    /\ \E r \in Records :
          /\ Len(Split(doc[origin[r][1] + 1])) = 1
          /\ users[r] = <<Unknown, Strip(LineEmail), Unknown>>

\* --------------------------------------------------------------------- C8
\* C8: in every run, also when opening the document or writing fails, the
\* output either holds the header and all records, or the run aborted
\* before creating, truncating or partly writing the output.
C8_NoPartialOutput ==
    /\ pc = "done" => csv = [exists |-> TRUE, rows |-> <<Header>> \o users]
    /\ pc = "aborted" => csv = NoFile

\* --------------------------------------------------------------------- C9
\* C9: a second run on the unchanged document gives the same records in
\* the same order and the same output; the stop flag, the records and the
\* output file left by the first run have no influence.
C9_SecondRunSame ==
    /\ (prev.outcome = "done" /\ ScanOver) => users = prev.users
    /\ (prev.outcome = "done" /\ pc = "done") => csv = prev.csv

C9_Witness ==
    /\ run = 2
    /\ pc = "done"
    /\ prev.outcome = "done"
    /\ deactivated_section
    /\ Len(users) = 2
    /\ csv.exists

\* -------------------------------------------------------------------- C10
\* C10: on every way out of a run the document handle that was opened is
\* closed and the output file handle that was opened is closed.
C10_HandlesReleased ==
    pc \in {"done", "aborted"} => (docHandle # "open" /\ fileHandle # "open")
====
